---- MODULE Spec2Model ----
(***************************************************************************)
(* chess-guru: ChesscomAPI.get_games (src/src/chess_guru/api.py) and the   *)
(* PGN helpers of src/src/chess_guru/utils.py.                             *)
(*                                                                         *)
(* Text is modelled character by character: a Python str is a sequence of  *)
(* one-character strings, so that strip, split and the regular expressions *)
(* of utils.py are computed as the code computes them.                     *)
(* Optional values: None is the empty sequence, a present value x is <<x>>.*)
(***************************************************************************)
EXTENDS Integers, Sequences, FiniteSets, TLC

(* ------------------------------ bounds -------------------------------- *)

\* instants (unix "seconds") run over 0..MaxTick
MaxTick == 3
\* length of a month on the model's time line, in ticks
TicksPerMonth == 2
\* longest archive list the index returns
MaxArchives == 2
\* largest max_concurrency passed to get_games
MaxConc == 2

(* --------------------------- program constants ------------------------ *)

\* backoff.on_exception(..., max_tries=5, ...)
max_tries == 5

None == <<>>
Some(x) == <<x>>

(* ------------------------------ datetimes ----------------------------- *)

\* A UTC datetime is <<year, month, tick within the month>>; tick 0 of the
\* time line is the first instant of December 2023, so the line crosses a
\* year boundary.  datetime.fromtimestamp(end_time, tz=timezone.utc).
FromTimestamp(n) ==
  LET ord == 11 + (n \div TicksPerMonth)
  IN  <<2023 + (ord \div 12), (ord % 12) + 1, n % TicksPerMonth>>

\* datetime.__lt__ on two aware datetimes: chronological order
DtLT(a, b) ==
  \/ a[1] < b[1]
  \/ a[1] = b[1] /\ a[2] < b[2]
  \/ a[1] = b[1] /\ a[2] = b[2] /\ a[3] < b[3]

\* tuple.__lt__ on (year, month): lexicographic, the year dominates
YmLT(a, b) == a[1] < b[1] \/ (a[1] = b[1] /\ a[2] < b[2])

\* A caller's datetime: a wall-clock reading and a tzinfo that is absent
\* ("naive"), UTC ("utc") or one tick east of UTC ("east").
TzOffset(tz) == IF tz = "east" THEN 1 ELSE 0

to_utc_dt(ts) ==
  IF ts = None THEN None
  ELSE IF ts[1].tz = "naive" THEN Some(FromTimestamp(ts[1].wall))
  ELSE Some(FromTimestamp(ts[1].wall - TzOffset(ts[1].tz)))

(* -------------------------------- text -------------------------------- *)

Whitespace == {" ", "\n", "\t", "\r"}
Digits == {"0", "1", "2", "3", "4", "5", "6", "7", "8", "9"}

IsWs(c) == c \in Whitespace
IsDigit(c) == c \in Digits

MinOf(S) == CHOOSE x \in S : \A y \in S : x <= y

\* s[a:b] of Python for 1-based inclusive positions a..b
Slice(s, a, b) == IF a > b THEN <<>> ELSE SubSeq(s, a, b)

\* pat occurs in s at position i
MatchAt(s, i, pat) ==
  /\ i >= 1
  /\ i + Len(pat) - 1 <= Len(s)
  /\ \A k \in 1..Len(pat) : s[i + k - 1] = pat[k]

\* str.strip(chars): drop the leading and trailing characters that are in cs
StripChars(s, cs) ==
  LET keep == {i \in 1..Len(s) : s[i] \notin cs}
  IN  IF keep = {} THEN <<>>
      ELSE Slice(s, MinOf(keep), CHOOSE x \in keep : \A y \in keep : y <= x)

\* str.strip() and str.rstrip()
Strip(s) == StripChars(s, Whitespace)

RStrip(s) ==
  LET keep == {i \in 1..Len(s) : ~IsWs(s[i])}
  IN  IF keep = {} THEN <<>>
      ELSE Slice(s, 1, CHOOSE x \in keep : \A y \in keep : y <= x)

\* the number of digits s has from position i on (the greedy \d+)
RECURSIVE DigitRun(_, _)
DigitRun(s, i) ==
  IF i <= Len(s) /\ IsDigit(s[i]) THEN 1 + DigitRun(s, i + 1) ELSE 0

\* the number of whitespace characters s has from position i on (\s*)
RECURSIVE WsRun(_, _)
WsRun(s, i) ==
  IF i <= Len(s) /\ IsWs(s[i]) THEN 1 + WsRun(s, i + 1) ELSE 0

DigitVal(c) ==
  CASE c = "0" -> 0 [] c = "1" -> 1 [] c = "2" -> 2 [] c = "3" -> 3
    [] c = "4" -> 4 [] c = "5" -> 5 [] c = "6" -> 6 [] c = "7" -> 7
    [] c = "8" -> 8 [] c = "9" -> 9

DigitChar(d) ==
  CASE d = 0 -> "0" [] d = 1 -> "1" [] d = 2 -> "2" [] d = 3 -> "3"
    [] d = 4 -> "4" [] d = 5 -> "5" [] d = 6 -> "6" [] d = 7 -> "7"
    [] d = 8 -> "8" [] d = 9 -> "9"

\* int(s) for a non-empty string of decimal digits
RECURSIVE DigitsToInt(_)
DigitsToInt(s) ==
  IF Len(s) = 0 THEN 0
  ELSE 10 * DigitsToInt(Slice(s, 1, Len(s) - 1)) + DigitVal(s[Len(s)])

\* str(n) for n >= 0
RECURSIVE IntToDigits(_)
IntToDigits(n) ==
  IF n < 10 THEN <<DigitChar(n)>>
  ELSE IntToDigits(n \div 10) \o <<DigitChar(n % 10)>>

\* int(s): None stands for the ValueError of a non-numeric string
IntOf(s) ==
  IF Len(s) > 0 /\ \A i \in 1..Len(s) : IsDigit(s[i])
  THEN Some(DigitsToInt(s)) ELSE None

(* ---------------------------- utils.py: PGN --------------------------- *)

\* str.split(sep, 1): None when sep does not occur, else <<before, after>>
SplitOnce(s, sep) ==
  LET at == {i \in 1..Len(s) : MatchAt(s, i, sep)}
  IN  IF at = {} THEN None
      ELSE LET i == MinOf(at)
           IN  Some(<<Slice(s, 1, i - 1), Slice(s, i + Len(sep), Len(s))>>)

\* the alternatives of _end_result_pattern, (1-0|0-1|1/2-1/2|\*)
ResultTokens ==
  { <<"1", "-", "0">>, <<"0", "-", "1">>,
    <<"1", "/", "2", "-", "1", "/", "2">>, <<"*">> }

\* _end_result_pattern.search(moves): the leftmost position where a result
\* token is followed by nothing but whitespace; None, or <<start, token>>
EndResultSearch(moves) ==
  LET hits == {i \in 1..Len(moves) :
                 \E t \in ResultTokens :
                    /\ MatchAt(moves, i, t)
                    /\ i + Len(t) + WsRun(moves, i + Len(t)) = Len(moves) + 1}
  IN  IF hits = {} THEN None
      ELSE LET i == MinOf(hits)
           IN  Some(<<i, CHOOSE t \in ResultTokens :
                           /\ MatchAt(moves, i, t)
                           /\ i + Len(t) + WsRun(moves, i + Len(t)) = Len(moves) + 1>>)

\* lines 25-32, for the stripped movetext and m = the search result
SplitResult(headers, moves, m) ==
  [headers |-> headers,
   moves |-> IF m = None THEN moves ELSE RStrip(Slice(moves, 1, m[1][1] - 1)),
   end_result |-> IF m = None THEN None ELSE Some(m[1][2])]

\* lines 22-32
SplitMoves(headers, moves) == SplitResult(headers, moves, EndResultSearch(moves))

\* line 21 for parts = pgn.split("\n\n", 1)
SplitParts(parts) ==
  IF parts = None THEN None
  ELSE Some(SplitMoves(parts[1][1], Strip(parts[1][2])))

\* None stands for the ValueError of unpacking a split that found no blank
\* line; else [headers, moves, end_result]
split_pgn_headers_and_moves(pgn) == SplitParts(SplitOnce(pgn, <<"\n", "\n">>))

\* str.splitlines() for "\n" line ends
RECURSIVE SplitLines(_)
SplitLines(s) ==
  IF Len(s) = 0 THEN <<>>
  ELSE LET nl == {i \in 1..Len(s) : s[i] = "\n"}
       IN  IF nl = {} THEN <<s>>
           ELSE <<Slice(s, 1, MinOf(nl) - 1)>>
                  \o SplitLines(Slice(s, MinOf(nl) + 1, Len(s)))

\* one line of the loop of _parse_pgn_headers: None stands for the ValueError
\* of unpacking a line that has no space; else <<key, value>>
HeaderLine(line) ==
  LET kv == SplitOnce(StripChars(line, {"[", "]"}), <<" ">>)
  IN  IF kv = None THEN None
      ELSE Some(<<kv[1][1], StripChars(kv[1][2], {"\""})>>)

\* parsed_header[key] = value
DictPut(d, k, v) == [x \in DOMAIN d \cup {k} |-> IF x = k THEN v ELSE d[x]]

EmptyDict == [x \in {} |-> <<>>]

RECURSIVE HeaderLoop(_, _)
HeaderLoop(lines, d) ==
  IF Len(lines) = 0 THEN Some(d)
  ELSE LET kv == HeaderLine(Head(lines))
       IN  IF kv = None THEN None
           ELSE HeaderLoop(Tail(lines), DictPut(d, kv[1][1], kv[1][2]))

parse_pgn_headers(pgn_header) == HeaderLoop(SplitLines(pgn_header), EmptyDict)

\* the characters of the clock token, [0-9:\.]
ClockChars == Digits \cup {":", "."}

RECURSIVE ClockRun(_, _)
ClockRun(s, i) ==
  IF i <= Len(s) /\ s[i] \in ClockChars THEN 1 + ClockRun(s, i + 1) ELSE 0

\* _clock_pattern, \{\s*\[%clk\s+([0-9:\.]+)\]\s*\}, tried at position i of s:
\* None, or [g1, g2, end]: group 1 is s[g1..g2] and the match ends at end.
\* Every repetition is followed by a character outside its class, so the
\* match is found without backtracking, piece by piece:
\* \]\s*\} from position p4, after the token s[p3..p4-1]
ClockClose(s, p3, p4, p5) ==
  IF p4 <= Len(s) /\ s[p4] = "]" /\ p5 <= Len(s) /\ s[p5] = "}"
  THEN Some([g1 |-> p3, g2 |-> p4 - 1, end |-> p5])
  ELSE None

\* ([0-9:\.]+) of length c from position p3
ClockToken(s, p3, c) ==
  IF c >= 1
  THEN ClockClose(s, p3, p3 + c, p3 + c + 1 + WsRun(s, p3 + c + 1))
  ELSE None

\* \s+ of length w from position p2
ClockGap(s, p2, w) ==
  IF w >= 1 THEN ClockToken(s, p2 + w, ClockRun(s, p2 + w)) ELSE None

\* \[%clk from position p1
ClockOpen(s, p1) ==
  IF MatchAt(s, p1, <<"[", "%", "c", "l", "k">>)
  THEN ClockGap(s, p1 + 5, WsRun(s, p1 + 5))
  ELSE None

ClockMatchAt(s, i) ==
  IF i >= 1 /\ i <= Len(s) /\ s[i] = "{"
  THEN ClockOpen(s, i + 1 + WsRun(s, i + 1))
  ELSE None

\* the positions of s where _clock_pattern matches
ClockHits(s) == {i \in 1..Len(s) : ClockMatchAt(s, i) # None}

\* the leftmost match among hits: None, or [start, g1, g2, end]
LeftmostClock(s, hits) ==
  IF hits = {} THEN None
  ELSE Some([start |-> MinOf(hits)] @@ ClockMatchAt(s, MinOf(hits))[1])

\* _clock_pattern.search(s)
ClockSearch(s) == LeftmostClock(s, ClockHits(s))

\* _clock_pattern.sub('', s): every match removed, left to right; m is the
\* leftmost match in s
RECURSIVE ClockSub(_)
RECURSIVE ClockCut(_, _)
ClockCut(s, m) ==
  IF m = None THEN s
  ELSE Slice(s, 1, m[1].start - 1) \o ClockSub(Slice(s, m[1].end + 1, Len(s)))

ClockSub(s) == ClockCut(s, ClockSearch(s))

\* str.split(" ", 1)[0]
FirstToken(s) ==
  LET sp == {i \in 1..Len(s) : s[i] = " "}
  IN  IF sp = {} THEN s ELSE Slice(s, 1, MinOf(sp) - 1)

\* lines 56-58: the entry for the text left once the clock is removed
MoveEntry(rest, clk) ==
  [move  |-> IF Len(rest) > 0 THEN Some(FirstToken(rest)) ELSE None,
   clock |-> clk]

\* lines 48-58, for the stripped text and clk_match = _clock_pattern.search
MoveAndClock(text, clk_match) ==
  IF clk_match = None THEN MoveEntry(text, None)
  ELSE MoveEntry(Strip(ClockSub(text)),
                 Some(Slice(text, clk_match[1].g1, clk_match[1].g2)))

\* lines 45-58, for the stripped text
ExtractStripped(text) == MoveAndClock(text, ClockSearch(text))

extract_move_and_clock(color_text) == ExtractStripped(Strip(color_text))

\* the positions re.split(r'(?<=\s)(?=\d+\.\s)', text) cuts text at
RoundCuts(text) ==
  {p \in 2..Len(text) :
     /\ IsWs(text[p - 1])
     /\ LET d == DigitRun(text, p)
        IN  /\ d >= 1
            /\ p + d + 1 <= Len(text)
            /\ text[p + d] = "."
            /\ IsWs(text[p + d + 1])}

\* the pieces of text between the cuts, in order
RECURSIVE SplitAt(_, _, _)
SplitAt(text, from, cuts) ==
  IF cuts = {} THEN <<Slice(text, from, Len(text))>>
  ELSE LET p == MinOf(cuts)
       IN  <<Slice(text, from, p - 1)>> \o SplitAt(text, p, cuts \ {p})

\* BlackMarkerAt with a marker of two dots, "<game_round>.."
BlackMarkerTwoDots(after_white_num, game_round) ==
  LET marker == IntToDigits(game_round) \o <<".", ".">>
      at == {j \in 2..Len(after_white_num) :
               /\ IsWs(after_white_num[j - 1])
               /\ MatchAt(after_white_num, j, marker)
               /\ j + Len(marker) <= Len(after_white_num)
               /\ IsWs(after_white_num[j + Len(marker)])}
  IN  IF at = {} THEN 0 ELSE MinOf(at)

\* re.split(rf'\s+{game_round}\.\.\.\s+', after_white_num, maxsplit=1):
\* the position of the leftmost "<game_round>..." that has whitespace on
\* both sides, or 0
BlackMarkerAt(after_white_num, game_round) ==
  LET marker == IntToDigits(game_round) \o <<".", ".", ".">>
      at == {j \in 2..Len(after_white_num) :
               /\ IsWs(after_white_num[j - 1])
               /\ MatchAt(after_white_num, j, marker)
               /\ j + Len(marker) <= Len(after_white_num)
               /\ IsWs(after_white_num[j + Len(marker)])}
  IN  IF at = {} THEN 0 ELSE MinOf(at)

\* lines 81-89: the round of a chunk whose text after "<num>. " is
\* after_white_num and whose black marker is at position j (0: none)
RoundOf(after_white_num, j, mlen) ==
  IF j = 0
  THEN [white |-> extract_move_and_clock(after_white_num), black |-> None]
  ELSE [white |-> extract_move_and_clock(Slice(after_white_num, 1, j - 1)),
        black |-> IF Len(Strip(Slice(after_white_num, j + mlen,
                                     Len(after_white_num)))) > 0
                  THEN Some(extract_move_and_clock(
                              Slice(after_white_num, j + mlen,
                                    Len(after_white_num))))
                  ELSE None]

\* lines 73-89, for the round number and the stripped text after it
RoundEntry(rounds, game_round, after_white_num) ==
  DictPut(rounds, game_round,
          RoundOf(after_white_num,
                  BlackMarkerAt(after_white_num, game_round),
                  Len(IntToDigits(game_round)) + 3))

\* lines 69-89, for a stripped non-empty chunk that starts with d digits
NumberedChunk(rounds, chunk, d) ==
  IF ~(d >= 1 /\ d + 1 <= Len(chunk) /\ chunk[d + 1] = ".") THEN rounds
  ELSE RoundEntry(rounds, DigitsToInt(Slice(chunk, 1, d)),
                  Strip(Slice(chunk, d + 2 + WsRun(chunk, d + 2), Len(chunk))))

\* lines 65-89 for the stripped chunk
StrippedChunk(rounds, chunk) ==
  IF Len(chunk) = 0 THEN rounds
  ELSE NumberedChunk(rounds, chunk, DigitRun(chunk, 1))

\* the body of the loop of _parse_moves for one chunk: the rounds dict after it
ParseChunk(rounds, raw_chunk) == StrippedChunk(rounds, Strip(raw_chunk))

RECURSIVE ChunkLoop(_, _)
ChunkLoop(chunks, rounds) ==
  IF Len(chunks) = 0 THEN rounds
  ELSE ChunkLoop(Tail(chunks), ParseChunk(rounds, Head(chunks)))

SplitRounds(text) == SplitAt(text, 1, RoundCuts(text))

parse_moves(pgn_moves) == ChunkLoop(SplitRounds(Strip(pgn_moves)), EmptyDict)

\* line 95, for the results of the two helpers that may raise
ParsedPgn(parts, headers) ==
  IF headers = None THEN None
  ELSE Some([headers |-> headers[1],
             result  |-> parts.end_result,
             moves   |-> parse_moves(parts.moves)])

\* line 95, once line 94 has returned parts
ParseParts(parts) == ParsedPgn(parts, parse_pgn_headers(parts.headers))

\* line 94 for the result of _split_pgn_headers_and_moves
ParseSplit(split) == IF split = None THEN None ELSE ParseParts(split[1])

\* None stands for the exception parse_pgn raises (a ValueError in both
\* helpers); else [headers, result, moves]
parse_pgn(pgn) == ParseSplit(split_pgn_headers_and_moves(pgn))

(* ------------------------- api.py: pure helpers ----------------------- *)

\* An archive locator is the list of its trailing path segments,
\* urlparse(archive_url).path.rstrip("/").split("/"); None stands for the
\* ValueError of int() on a non-numeric segment.
parse_archive_year_month(archive_url) ==
  LET parts == archive_url
      y == IntOf(parts[Len(parts) - 1])
      m == IntOf(parts[Len(parts)])
  IN  IF y = None \/ m = None THEN None ELSE Some(<<y[1], m[1]>>)

\* (from_dt.year, from_dt.month) if from_dt else None
YmOf(dt) == IF dt = None THEN None ELSE Some(<<dt[1][1], dt[1][2]>>)

\* month_in_range comparing the month numbers only, the years left out
month_in_range_MonthOnly(ym, start_ym, end_ym) ==
  IF start_ym # None /\ ym[2] < start_ym[1][2] THEN FALSE
  ELSE IF end_ym # None /\ end_ym[1][2] < ym[2] THEN FALSE
  ELSE TRUE

\* month_in_range with the month of to_dt left out
month_in_range_Exclusive(ym, start_ym, end_ym) ==
  IF start_ym # None /\ YmLT(ym, start_ym[1]) THEN FALSE
  ELSE IF end_ym # None /\ ~YmLT(ym, end_ym[1]) THEN FALSE
  ELSE TRUE

\* month_in_range(u) for the (year, month) ym of a well-formed locator
month_in_range(ym, start_ym, end_ym) ==
  IF start_ym # None /\ YmLT(ym, start_ym[1]) THEN FALSE
  ELSE IF end_ym # None /\ YmLT(end_ym[1], ym) THEN FALSE
  ELSE TRUE

\* FilterUrls with a malformed locator dropped instead of raising
FilterUrlsSkipMalformed(archive_urls, from_dt, to_dt) ==
  IF from_dt = None /\ to_dt = None THEN Some(archive_urls)
  ELSE LET Keep(u) ==
             /\ parse_archive_year_month(u) # None
             /\ month_in_range(parse_archive_year_month(u)[1],
                               YmOf(from_dt), YmOf(to_dt))
       IN  Some(SelectSeq(archive_urls, Keep))

\* lines 225-239: None stands for the ValueError a malformed locator raises
\* out of month_in_range; else the filtered list
FilterUrls(archive_urls, from_dt, to_dt) ==
  IF from_dt = None /\ to_dt = None THEN Some(archive_urls)
  ELSE IF \E i \in 1..Len(archive_urls) :
             parse_archive_year_month(archive_urls[i]) = None
       THEN None
  ELSE LET Keep(u) == month_in_range(parse_archive_year_month(u)[1],
                                     YmOf(from_dt), YmOf(to_dt))
       IN  Some(SelectSeq(archive_urls, Keep))

\* from_dt and to_dt and from_dt > to_dt
BadRange(from_dt, to_dt) ==
  from_dt # None /\ to_dt # None /\ DtLT(to_dt[1], from_dt[1])

\* An exception is [type, status]; status is 0 where the type has none.
ResponseError(status) == [type |-> "ClientResponseError", status |-> status]
TimeoutError == [type |-> "TimeoutError", status |-> 0]
ValueError == [type |-> "ValueError", status |-> 0]

\* _terminal_error without the exception for status 429
_terminal_error_Below500(e) ==
  IF e.type = "ClientResponseError" THEN e.status < 500 ELSE FALSE

_terminal_error(e) ==
  IF e.type = "ClientResponseError"
  THEN e.status < 500 /\ e.status # 429
  ELSE FALSE

\* backoff.on_exception: after a failed attempt number tries, the error is
\* raised to the caller (no further attempt) iff giveup(e) or tries = max_tries
GivesUp(e, tries) == _terminal_error(e) \/ tries >= max_tries

\* repr(r) of an exception
ExcRepr(e) == e.type \o "(" \o ToString(e.status) \o ")"

\* InTimeRange without the test of line 275
InTimeRangeNoUpper(g, from_dt, to_dt) ==
  IF from_dt # None \/ to_dt # None
  THEN IF g.end_time = None THEN FALSE
       ELSE IF from_dt # None /\ DtLT(FromTimestamp(g.end_time[1]), from_dt[1])
            THEN FALSE
            ELSE TRUE
  ELSE TRUE

\* InTimeRange with a game at the instant of from_dt or of to_dt left out
InTimeRangeOpen(g, from_dt, to_dt) ==
  IF from_dt # None \/ to_dt # None
  THEN IF g.end_time = None THEN FALSE
       ELSE IF from_dt # None /\ ~DtLT(from_dt[1], FromTimestamp(g.end_time[1]))
            THEN FALSE
            ELSE IF to_dt # None /\ ~DtLT(FromTimestamp(g.end_time[1]), to_dt[1])
                 THEN FALSE
                 ELSE TRUE
  ELSE TRUE

\* lines 267-276: whether the loop goes on to keep g
InTimeRange(g, from_dt, to_dt) ==
  IF from_dt # None \/ to_dt # None
  THEN IF g.end_time = None THEN FALSE
       ELSE LET g_dt == FromTimestamp(g.end_time[1])
            IN  IF from_dt # None /\ DtLT(g_dt, from_dt[1]) THEN FALSE
                ELSE IF to_dt # None /\ DtLT(to_dt[1], g_dt) THEN FALSE
                ELSE TRUE
  ELSE TRUE

\* Attach that never sets parsed_pgn
AttachNever(g, parsed) == g

\* lines 282-289: g after the try block, parsed being what parse_pgn gave
Attach(g, parsed) ==
  IF parsed = None THEN g ELSE [g EXCEPT !.parsed_pgn = parsed]

\* lines 278-289: g as appended to kept
Annotate(g) ==
  IF g.pgn # None /\ Len(g.pgn[1]) > 0
  THEN Attach(g, parse_pgn(g.pgn[1]))
  ELSE g

\* KeptGames with a game dropped when its notation does not parse
RECURSIVE KeptGamesDropUnparsed(_, _, _)
KeptGamesDropUnparsed(games, from_dt, to_dt) ==
  IF Len(games) = 0 THEN <<>>
  ELSE IF /\ InTimeRange(Head(games), from_dt, to_dt)
          /\ ~(/\ Head(games).pgn # None
               /\ Len(Head(games).pgn[1]) > 0
               /\ parse_pgn(Head(games).pgn[1]) = None)
       THEN <<Annotate(Head(games))>>
              \o KeptGamesDropUnparsed(Tail(games), from_dt, to_dt)
       ELSE KeptGamesDropUnparsed(Tail(games), from_dt, to_dt)

\* lines 263-291: the kept list of one month
RECURSIVE KeptGames(_, _, _)
KeptGames(games, from_dt, to_dt) ==
  IF Len(games) = 0 THEN <<>>
  ELSE IF InTimeRange(Head(games), from_dt, to_dt)
       THEN <<Annotate(Head(games))>> \o KeptGames(Tail(games), from_dt, to_dt)
       ELSE KeptGames(Tail(games), from_dt, to_dt)

\* isinstance(r, Exception), r an outcome of gather
IsException(r) == ~r.ok

\* AssembleLoop with "break" for the "continue" of line 260
RECURSIVE AssembleLoopBreak(_, _, _, _, _, _)
AssembleLoopBreak(urls, datas, i, from_dt, to_dt, acc) ==
  IF i > Len(urls) THEN acc
  ELSE IF IsException(datas[i])
       THEN [acc EXCEPT !.errors = DictPut(acc.errors, urls[i],
                                           ExcRepr(datas[i].exc))]
       ELSE AssembleLoopBreak(urls, datas, i + 1, from_dt, to_dt,
              [acc EXCEPT !.months =
                 DictPut(acc.months, urls[i],
                   [games |-> KeptGames(datas[i].payload.games, from_dt, to_dt)])])

\* AssembleLoop without the assignment of line 259
RECURSIVE AssembleLoopNoErrors(_, _, _, _, _, _)
AssembleLoopNoErrors(urls, datas, i, from_dt, to_dt, acc) ==
  IF i > Len(urls) THEN acc
  ELSE IF IsException(datas[i])
       THEN AssembleLoopNoErrors(urls, datas, i + 1, from_dt, to_dt, acc)
       ELSE AssembleLoopNoErrors(urls, datas, i + 1, from_dt, to_dt,
              [acc EXCEPT !.months =
                 DictPut(acc.months, urls[i],
                   [games |-> KeptGames(datas[i].payload.games, from_dt, to_dt)])])

\* AssembleLoop pairing the locator at position i with the outcome at the
\* mirrored position
RECURSIVE AssembleLoopMirrored(_, _, _, _, _, _)
AssembleLoopMirrored(urls, datas, i, from_dt, to_dt, acc) ==
  IF i > Len(urls) THEN acc
  ELSE IF IsException(datas[Len(urls) + 1 - i])
       THEN AssembleLoopMirrored(urls, datas, i + 1, from_dt, to_dt,
              [acc EXCEPT !.errors =
                 DictPut(acc.errors, urls[i],
                         ExcRepr(datas[Len(urls) + 1 - i].exc))])
       ELSE AssembleLoopMirrored(urls, datas, i + 1, from_dt, to_dt,
              [acc EXCEPT !.months =
                 DictPut(acc.months, urls[i],
                   [games |-> KeptGames(datas[Len(urls) + 1 - i].payload.games,
                                        from_dt, to_dt)])])

\* lines 256-295: the loop over zip(filtered_urls, monthly_datas), from
\* position i on; acc is [months, errors]
RECURSIVE AssembleLoop(_, _, _, _, _, _)
AssembleLoop(urls, datas, i, from_dt, to_dt, acc) ==
  IF i > Len(urls) THEN acc
  ELSE LET u == urls[i]
           r == datas[i]
       IN  IF IsException(r)
           THEN AssembleLoop(urls, datas, i + 1, from_dt, to_dt,
                  [acc EXCEPT !.errors = DictPut(acc.errors, u, ExcRepr(r.exc))])
           ELSE AssembleLoop(urls, datas, i + 1, from_dt, to_dt,
                  [acc EXCEPT !.months =
                     DictPut(acc.months, u,
                       [games |-> KeptGames(r.payload.games, from_dt, to_dt)])])

\* datetime.isoformat()
IsoFormat(dt) ==
  IF dt = None THEN None
  ELSE Some(ToString(dt[1][1]) \o "-" \o ToString(dt[1][2]) \o "T"
              \o ToString(dt[1][3]) \o "+00:00")

(* ------------------------------- inputs ------------------------------- *)

\* the round-trip example of the spec
\* '[Event "Test"]\n\n1. e4 {[%clk 0:10:00]} e5 {[%clk 0:09:55]} 2. Nf3 1-0'
PgnExample ==
  <<"[", "E", "v", "e", "n", "t", " ", "\"", "T", "e", "s", "t", "\"", "]",
    "\n", "\n", "1", ".", " ", "e", "4", " ", "{", "[", "%", "c", "l", "k",
    " ", "0", ":", "1", "0", ":", "0", "0", "]", "}", " ", "e", "5", " ",
    "{", "[", "%", "c", "l", "k", " ", "0", ":", "0", "9", ":", "5", "5",
    "]", "}", " ", "2", ".", " ", "N", "f", "3", " ", "1", "-", "0">>

\* the same game as chess.com writes it, with "1..." before the black move
\* '[Event "Test"]\n\n1. e4 {[%clk 0:10:00]} 1... e5 {[%clk 0:09:55]} 2. Nf3 1-0'
PgnChessCom ==
  <<"[", "E", "v", "e", "n", "t", " ", "\"", "T", "e", "s", "t", "\"", "]",
    "\n", "\n", "1", ".", " ", "e", "4", " ", "{", "[", "%", "c", "l", "k",
    " ", "0", ":", "1", "0", ":", "0", "0", "]", "}", " ", "1", ".", ".",
    ".", " ", "e", "5", " ", "{", "[", "%", "c", "l", "k", " ", "0", ":",
    "0", "9", ":", "5", "5", "]", "}", " ", "2", ".", " ", "N", "f", "3",
    " ", "1", "-", "0">>

\* a short game as chess.com writes it
\* '[W "a"]\n\n1. e4 1... e5 *'
PgnShort ==
  <<"[", "W", " ", "\"", "a", "\"", "]", "\n", "\n", "1", ".", " ", "e",
    "4", " ", "1", ".", ".", ".", " ", "e", "5", " ", "*">>

\* no blank line between the headers and the movetext
\* '[W "a"]\n1. e4 *'
PgnNoSeparator ==
  <<"[", "W", " ", "\"", "a", "\"", "]", "\n", "1", ".", " ", "e", "4",
    " ", "*">>

\* a header line without a space
\* '[W]\n\n1. e4 *'
PgnBadHeader ==
  <<"[", "W", "]", "\n", "\n", "1", ".", " ", "e", "4", " ", "*">>

\* the empty string
PgnEmpty == <<>>
Game(end_time, pgn) == [end_time |-> end_time, pgn |-> pgn, parsed_pgn |-> None]

\* month payloads the fetch capability may answer with
PayloadA ==
  [games |-> << Game(Some(0), Some(PgnShort)),
                Game(None, Some(PgnNoSeparator)),
                Game(Some(MaxTick), None) >>]

PayloadB ==
  [games |-> << Game(Some(1), Some(PgnNoSeparator)),
                Game(Some(2), Some(PgnEmpty)),
                Game(Some(0), Some(PgnBadHeader)) >>]

Payloads == {PayloadA, PayloadB}

\* locators .../games/2023/12, .../games/2024/01 and the malformed
\* .../games/2024/xx
Url2312 == << <<"2", "0", "2", "3">>, <<"1", "2">> >>
Url2401 == << <<"2", "0", "2", "4">>, <<"0", "1">> >>
UrlBad == << <<"2", "0", "2", "4">>, <<"x", "x">> >>

Locators == {Url2312, Url2401, UrlBad}

SeqsUpTo(S, n) == UNION {[1..k -> S] : k \in 0..n}

\* what the index may answer with ("archives" missing is the empty list)
IndexLists == SeqsUpTo(Locators, MaxArchives)

\* the datetimes a caller may pass as from_ts: naive, UTC and east-of-UTC
\* readings of the instants 1 and MaxTick
FromInputs ==
  {None, Some([wall |-> 1, tz |-> "naive"]), Some([wall |-> 2, tz |-> "east"]),
   Some([wall |-> MaxTick, tz |-> "utc"])}

\* the datetimes a caller may pass as to_ts: readings of the instants 0 and
\* MaxTick - 1
ToInputs ==
  {None, Some([wall |-> 0, tz |-> "naive"]),
   Some([wall |-> MaxTick - 1, tz |-> "utc"]),
   Some([wall |-> MaxTick, tz |-> "east"])}

\* what one HTTP attempt of the index request may fail with
AttemptErrors ==
  {ResponseError(404), ResponseError(429), ResponseError(500), TimeoutError}

\* what one HTTP attempt of a month request may fail with
MonthErrors == {ResponseError(404), ResponseError(500)}

(* ------------------------------- state -------------------------------- *)

VARIABLES
  pc,               \* where get_games is: idle, index, gather, returned, raised
  max_concurrency,  \* argument
  from_dt, to_dt,   \* to_utc_dt(from_ts), to_utc_dt(to_ts)
  idx_tries,        \* attempts made by the _request of get_archives
  index_requests,   \* calls of the fetch capability for the archive index
  month_requests,   \* calls of the fetch capability for a month
  archive_urls,     \* archive_data.get("archives", [])
  filtered_urls,    \* filtered_urls
  sem,              \* free slots of asyncio.Semaphore(max_concurrency)
  tasks,            \* the fetch_month coroutines gather runs, by position
  result,           \* None, or the dict get_games returned
  exc,              \* None, or the exception get_games raised
  overtaken,        \* a month fetch settled before one listed ahead of it
  hpc, harg, hout   \* a pure function under check: phase, input, output

vars == <<pc, max_concurrency, from_dt, to_dt, idx_tries, index_requests,
          month_requests, archive_urls, filtered_urls, sem, tasks, result,
          exc, overtaken, hpc, harg, hout>>

apiVars == <<pc, max_concurrency, from_dt, to_dt, idx_tries, index_requests,
             month_requests, archive_urls, filtered_urls, sem, tasks, result,
             exc, overtaken>>

harnessVars == <<hpc, harg, hout>>

ApiIdle ==
  /\ pc = "idle"
  /\ max_concurrency = 0
  /\ from_dt = None
  /\ to_dt = None
  /\ idx_tries = 0
  /\ index_requests = 0
  /\ month_requests = 0
  /\ archive_urls = <<>>
  /\ filtered_urls = <<>>
  /\ sem = 0
  /\ tasks = <<>>
  /\ result = None
  /\ exc = None
  /\ overtaken = FALSE

HarnessOff == hpc = "off" /\ harg = <<>> /\ hout = <<>>

Init == ApiIdle /\ HarnessOff

(* ------------------------------ get_games ----------------------------- *)

\* The call, up to the first suspension: get_archives has issued its first
\* HTTP attempt.  to_utc_dt (lines 218-219) reads only the arguments and
\* cannot fail, so its results are recorded here.
GetGames(N, from_ts, to_ts) ==
  /\ pc = "idle"
  /\ hpc = "off"
  /\ pc' = "index"
  /\ max_concurrency' = N
  /\ from_dt' = to_utc_dt(from_ts)
  /\ to_dt' = to_utc_dt(to_ts)
  /\ idx_tries' = 1
  /\ index_requests' = 1
  /\ UNCHANGED <<month_requests, archive_urls, filtered_urls, sem, tasks,
                 result, exc>>
  /\ UNCHANGED overtaken
  /\ UNCHANGED harnessVars

\* IndexAttemptFails with the error swallowed when backoff gives up: the
\* index is taken to be empty and a result with no months is returned
IndexAttemptFailsSwallowed(e) ==
  /\ pc = "index"
  /\ IF GivesUp(e, idx_tries)
     THEN /\ pc' = "returned"
          /\ result' = Some([username |-> "u", archives |-> <<>>,
                             months |-> EmptyDict, errors |-> EmptyDict,
                             from_ts |-> IsoFormat(from_dt),
                             to_ts |-> IsoFormat(to_dt)])
          /\ UNCHANGED idx_tries
     ELSE /\ idx_tries' = idx_tries + 1
          /\ UNCHANGED <<pc, result>>
  /\ UNCHANGED <<max_concurrency, from_dt, to_dt, index_requests,
                 month_requests, archive_urls, filtered_urls, sem, tasks,
                 exc>>
  /\ UNCHANGED overtaken
  /\ UNCHANGED harnessVars

\* An HTTP attempt of the index request fails with e: backoff retries it, or
\* gives up and get_archives, hence get_games, raises e (line 215).
IndexAttemptFails(e) ==
  /\ pc = "index"
  /\ IF GivesUp(e, idx_tries)
     THEN /\ pc' = "raised"
          /\ exc' = Some(e)
          /\ UNCHANGED idx_tries
     ELSE /\ idx_tries' = idx_tries + 1
          /\ UNCHANGED <<pc, exc>>
  /\ UNCHANGED <<max_concurrency, from_dt, to_dt, index_requests,
                 month_requests, archive_urls, filtered_urls, sem, tasks,
                 result>>
  /\ UNCHANGED overtaken
  /\ UNCHANGED harnessVars

\* The index request answers urls: lines 216-250 run to the
\* suspension of gather, or to the raise of line 222 or of month_in_range.
IndexAttemptSucceeds(urls) ==
  /\ pc = "index"
  /\ archive_urls' = urls
  /\ LET filtered == FilterUrls(urls, from_dt, to_dt)
     IN  IF BadRange(from_dt, to_dt) \/ filtered = None
         THEN /\ pc' = "raised"
              /\ exc' = Some(ValueError)
              /\ UNCHANGED <<filtered_urls, sem, tasks>>
         ELSE /\ pc' = "gather"
              /\ filtered_urls' = filtered[1]
              /\ sem' = max_concurrency
              /\ tasks' = [i \in 1..Len(filtered[1]) |->
                             [st |-> "queued", tries |-> 0, out |-> None]]
              /\ UNCHANGED exc
  /\ UNCHANGED <<max_concurrency, from_dt, to_dt, idx_tries, index_requests,
                 month_requests, result>>
  /\ UNCHANGED overtaken
  /\ UNCHANGED harnessVars

\* SemFree with the test off by one: a slot is handed out at zero
SemFreeOffByOne(s) == s >= 0

\* sem.acquire() does not block
SemFree(s) == s > 0

\* fetch_month(filtered_urls[i]) enters "async with sem" and issues the first
\* HTTP attempt of its _request.  gather starts the coroutines in list order
\* and asyncio.Semaphore wakes its waiters first come first served.
StartFetch(i) ==
  /\ pc = "gather"
  /\ i \in 1..Len(tasks)
  /\ tasks[i].st = "queued"
  /\ \A j \in 1..(i - 1) : tasks[j].st # "queued"
  /\ SemFree(sem)
  /\ sem' = sem - 1
  /\ tasks' = [tasks EXCEPT ![i] = [st |-> "running", tries |-> 1, out |-> None]]
  /\ month_requests' = month_requests + 1
  /\ UNCHANGED <<pc, max_concurrency, from_dt, to_dt, idx_tries,
                 index_requests, archive_urls, filtered_urls, result, exc>>
  /\ UNCHANGED overtaken
  /\ UNCHANGED harnessVars

\* the outcome gather records for a coroutine that raised e
Failed(e) == [ok |-> FALSE, exc |-> e]

\* the outcome gather records for a coroutine that returned payload
Fetched(payload) == [ok |-> TRUE, payload |-> payload]

\* the coroutine at position i settles while one listed ahead of it has not
Overtakes(i) == \E j \in 1..(i - 1) : tasks[j].st # "done"

\* FetchAttemptFails with the slot kept when the coroutine raises
FetchAttemptFailsKeepsSlot(i, e) ==
  /\ pc = "gather"
  /\ i \in 1..Len(tasks)
  /\ tasks[i].st = "running"
  /\ IF GivesUp(e, tasks[i].tries)
     THEN /\ tasks' = [tasks EXCEPT ![i] = [st |-> "done", tries |-> 0,
                                            out |-> Some(Failed(e))]]
          /\ overtaken' = (overtaken \/ Overtakes(i))
          /\ UNCHANGED sem
     ELSE /\ tasks' = [tasks EXCEPT ![i].tries = @ + 1]
          /\ UNCHANGED <<sem, overtaken>>
  /\ UNCHANGED <<pc, max_concurrency, from_dt, to_dt, idx_tries,
                 index_requests, month_requests, archive_urls, filtered_urls,
                 result, exc>>
  /\ UNCHANGED harnessVars

\* An HTTP attempt of month i fails with e: a retry inside the same slot, or
\* the coroutine raises e, leaves "async with sem" and gather keeps e.
FetchAttemptFails(i, e) ==
  /\ pc = "gather"
  /\ i \in 1..Len(tasks)
  /\ tasks[i].st = "running"
  /\ IF GivesUp(e, tasks[i].tries)
     THEN /\ tasks' = [tasks EXCEPT ![i] = [st |-> "done", tries |-> 0,
                                            out |-> Some(Failed(e))]]
          /\ sem' = sem + 1
          /\ overtaken' = (overtaken \/ Overtakes(i))
     ELSE /\ tasks' = [tasks EXCEPT ![i].tries = @ + 1]
          /\ UNCHANGED <<sem, overtaken>>
  /\ UNCHANGED <<pc, max_concurrency, from_dt, to_dt, idx_tries,
                 index_requests, month_requests, archive_urls, filtered_urls,
                 result, exc>>
  /\ UNCHANGED harnessVars

\* An HTTP attempt of month i answers payload.
FetchAttemptSucceeds(i, payload) ==
  /\ pc = "gather"
  /\ i \in 1..Len(tasks)
  /\ tasks[i].st = "running"
  /\ tasks' = [tasks EXCEPT ![i] = [st |-> "done", tries |-> 0,
                                    out |-> Some(Fetched(payload))]]
  /\ sem' = sem + 1
  /\ overtaken' = (overtaken \/ Overtakes(i))
  /\ UNCHANGED <<pc, max_concurrency, from_dt, to_dt, idx_tries,
                 index_requests, month_requests, archive_urls, filtered_urls,
                 result, exc>>
  /\ UNCHANGED harnessVars

\* gather may return: every coroutine has settled
AllSettled(ts) == \A i \in 1..Len(ts) : ts[i].st = "done"

\* lines 297-304
ResultDict(urls, built, from, to) ==
  [username |-> "u",
   archives |-> urls,
   months   |-> built.months,
   errors   |-> built.errors,
   from_ts  |-> IsoFormat(from),
   to_ts    |-> IsoFormat(to)]

\* lines 252-304 for the list gather returned
Assemble(urls, monthly_datas, from, to) ==
  ResultDict(urls,
             AssembleLoop(urls, monthly_datas, 1, from, to,
                          [months |-> EmptyDict, errors |-> EmptyDict]),
             from, to)

\* GatherReturns without the wait for the fetches in flight: a coroutine
\* that has not settled counts as timed out
GatherReturnsEarly ==
  /\ pc = "gather"
  /\ \A i \in 1..Len(tasks) : tasks[i].st # "queued"
  /\ result' = Some(Assemble(filtered_urls,
                             [i \in 1..Len(tasks) |->
                                IF tasks[i].st = "done" THEN tasks[i].out[1]
                                ELSE Failed(TimeoutError)],
                             from_dt, to_dt))
  /\ pc' = "returned"
  /\ UNCHANGED <<max_concurrency, from_dt, to_dt, idx_tries, index_requests,
                 month_requests, archive_urls, filtered_urls, sem, tasks, exc>>
  /\ UNCHANGED overtaken
  /\ UNCHANGED harnessVars

\* gather returns monthly_datas; lines 252-304 build and return the result.
GatherReturns ==
  /\ pc = "gather"
  /\ AllSettled(tasks)
  /\ result' = Some(Assemble(filtered_urls,
                             [i \in 1..Len(tasks) |-> tasks[i].out[1]],
                             from_dt, to_dt))
  /\ pc' = "returned"
  /\ UNCHANGED <<max_concurrency, from_dt, to_dt, idx_tries, index_requests,
                 month_requests, archive_urls, filtered_urls, sem, tasks, exc>>
  /\ UNCHANGED overtaken
  /\ UNCHANGED harnessVars

Next ==
  \/ \E N \in 1..MaxConc, f \in FromInputs, t \in ToInputs : GetGames(N, f, t)
  \/ \E e \in AttemptErrors : IndexAttemptFails(e)
  \/ \E urls \in IndexLists : IndexAttemptSucceeds(urls)
  \/ \E i \in 1..MaxArchives : StartFetch(i)
  \/ \E i \in 1..MaxArchives, e \in MonthErrors : FetchAttemptFails(i, e)
  \/ \E i \in 1..MaxArchives, p \in Payloads : FetchAttemptSucceeds(i, p)
  \/ GatherReturns

Spec == Init /\ [][Next]_vars

(* ------------------------ get_games, scheduled ------------------------ *)

\* the HTTP attempt in flight for month i completes, one way or the other
AttemptSettles(i) ==
  \/ \E e \in MonthErrors : FetchAttemptFails(i, e)
  \/ \E p \in Payloads : FetchAttemptSucceeds(i, p)

\* get_games is resumed from the await of gather: the step of GatherReturns
\* as far as pc goes
GatherCompletes == pc = "gather" /\ AllSettled(tasks) /\ pc' = "returned"

\* The event loop runs every coroutine that is ready: a fetch_month whose
\* turn it is at a free slot, and get_games once gather is complete.  Every
\* HTTP attempt completes (aiohttp's total timeout, line 80), and backoff
\* makes at most max_tries of them.
Fairness ==
  /\ \A i \in 1..MaxArchives : WF_vars(StartFetch(i))
  /\ \A i \in 1..MaxArchives : WF_vars(AttemptSettles(i))
  /\ WF_pc(GatherCompletes)

\* get_games called without a time bound, every month answering the same
\* payload: the bound and the games play no part in the scheduling of the
\* fan-out, which is what N, the list and the failures decide
NextLive ==
  \/ \E N \in 1..MaxConc : GetGames(N, None, None)
  \/ \E e \in AttemptErrors : IndexAttemptFails(e)
  \/ \E urls \in IndexLists : IndexAttemptSucceeds(urls)
  \/ \E i \in 1..MaxArchives : StartFetch(i)
  \/ \E i \in 1..MaxArchives, e \in MonthErrors : FetchAttemptFails(i, e)
  \/ \E i \in 1..MaxArchives : FetchAttemptSucceeds(i, PayloadA)
  \/ GatherReturns

SpecLive == Init /\ [][NextLive]_vars /\ Fairness

(* ------------------------- _request, on its own ----------------------- *)

\* other exceptions of an attempt: the connection fails (an
\* aiohttp.ClientError), or the body is not JSON (a ValueError of line 137)
ConnectionError == [type |-> "ClientConnectionError", status |-> 0]
DecodeError == [type |-> "JSONDecodeError", status |-> 0]

\* isinstance(e, (aiohttp.ClientError, asyncio.TimeoutError)): the
\* exceptions backoff.on_exception handles
Caught(e) ==
  e.type \in {"ClientResponseError", "ClientConnectionError", "TimeoutError"}

\* what one HTTP attempt may fail with
RequestErrors ==
  {ResponseError(404), ResponseError(429), ResponseError(500),
   ResponseError(503), TimeoutError, ConnectionError, DecodeError}

\* a call of _request: with exactly one of url and endpoint, the url under
\* base_url (valid), or not
InitRequest ==
  /\ ApiIdle
  /\ hpc = "call"
  /\ harg \in [valid : BOOLEAN]
  /\ hout = [log |-> <<>>, raised |-> None, returned |-> None]

\* lines 112-121: the arguments are rejected, or the first attempt is issued
RequestStarts ==
  /\ hpc = "call"
  /\ IF harg.valid
     THEN hpc' = "attempt" /\ UNCHANGED hout
     ELSE hpc' = "done" /\ hout' = [hout EXCEPT !.raised = Some(ValueError)]
  /\ UNCHANGED harg
  /\ UNCHANGED apiVars

\* the attempt in flight fails with e: backoff issues another one, or e is
\* raised to the caller; log is the outcomes of the attempts so far
RequestAttemptFails(e) ==
  /\ hpc = "attempt"
  /\ IF ~Caught(e) \/ GivesUp(e, Len(hout.log) + 1)
     THEN /\ hpc' = "done"
          /\ hout' = [hout EXCEPT !.log = Append(@, Failed(e)),
                                  !.raised = Some(e)]
     ELSE /\ hpc' = "attempt"
          /\ hout' = [hout EXCEPT !.log = Append(@, Failed(e))]
  /\ UNCHANGED harg
  /\ UNCHANGED apiVars

\* the attempt in flight answers payload, which _request returns
RequestAttemptSucceeds(payload) ==
  /\ hpc = "attempt"
  /\ hpc' = "done"
  /\ hout' = [hout EXCEPT !.log = Append(@, Fetched(payload)),
                          !.returned = Some(payload)]
  /\ UNCHANGED harg
  /\ UNCHANGED apiVars

NextRequest ==
  \/ RequestStarts
  \/ \E e \in RequestErrors : RequestAttemptFails(e)
  \/ \E p \in Payloads : RequestAttemptSucceeds(p)

SpecRequest == InitRequest /\ [][NextRequest]_vars

(* --------------------- the month filter, on its own ------------------- *)

\* locators .../games/2023/11 and .../games/2024/02, outside the time line
Url2311 == << <<"2", "0", "2", "3">>, <<"1", "1">> >>
Url2402 == << <<"2", "0", "2", "4">>, <<"2">> >>

FilterLocators == {Url2311, Url2312, Url2401, Url2402, UrlBad}

\* from_dt, to_dt: absent, or an instant of the time line
DtInputs == {None} \cup {Some(FromTimestamp(n)) : n \in 0..MaxTick}

\* an archive list and two bounds B1, B2
FilterInputs ==
  [urls : SeqsUpTo(FilterLocators, MaxArchives),
   from1 : DtInputs, to1 : DtInputs, from2 : DtInputs, to2 : DtInputs]

InitFilter ==
  /\ ApiIdle
  /\ hpc = "in"
  /\ harg \in FilterInputs
  /\ hout = <<>>

\* lines 225-239 applied to the list under B1 and under B2
ApplyFilter ==
  /\ hpc = "in"
  /\ hpc' = "out"
  /\ hout' = [kept1 |-> FilterUrls(harg.urls, harg.from1, harg.to1),
              kept2 |-> FilterUrls(harg.urls, harg.from2, harg.to2)]
  /\ UNCHANGED harg
  /\ UNCHANGED apiVars

NextFilter == ApplyFilter

SpecFilter == InitFilter /\ [][NextFilter]_vars

(* ------------------------- parse_pgn, on its own ---------------------- *)

\* rounds per generated movetext
MaxRounds == 2

Chars_e4 == <<"e", "4">>
Chars_e5 == <<"e", "5">>
Chars_Nf3 == <<"N", "f", "3">>
Chars_Nc6 == <<"N", "c", "6">>

\* the moves generated for round k
WhiteMoveOf(k) == IF k % 2 = 1 THEN Chars_e4 ELSE Chars_Nf3
BlackMoveOf(k) == IF k % 2 = 1 THEN Chars_e5 ELSE Chars_Nc6

\* the clock tokens generated for white and for black
WhiteClock == <<"0", ":", "1", "0", ":", "0", "0">>
BlackClock == <<"0", ":", "0", "9", ":", "5", "5">>

\* {[%clk <token>]}
ClockNote(token) ==
  <<"{", "[", "%", "c", "l", "k", " ">> \o token \o <<"]", "}">>

\* A round is written from a shape: which of the white move, the white
\* clock, the "<k>..." marker, the black move and the black clock it has.
RoundShapes == [wm : BOOLEAN, wc : BOOLEAN, mark : BOOLEAN, bm : BOOLEAN, bc : BOOLEAN]

Sp(on, text) == IF on THEN <<" ">> \o text ELSE <<>>

\* the text of round k of shape sh: "<k>." and its parts, one space apart
RoundText(k, sh) ==
  IntToDigits(k) \o <<".">>
    \o Sp(sh.wm, WhiteMoveOf(k))
    \o Sp(sh.wc, ClockNote(WhiteClock))
    \o Sp(sh.mark, IntToDigits(k) \o <<".", ".", ".">>)
    \o Sp(sh.bm, BlackMoveOf(k))
    \o Sp(sh.bc, ClockNote(BlackClock))

\* rounds 1..Len(shapes), one space apart
RECURSIVE MoveText(_, _)
MoveText(shapes, k) ==
  IF k > Len(shapes) THEN <<>>
  ELSE IF k = 1 THEN RoundText(1, shapes[1]) \o MoveText(shapes, 2)
  ELSE <<" ">> \o RoundText(k, shapes[k]) \o MoveText(shapes, k + 1)

HeaderEventTest ==
  <<"[", "E", "v", "e", "n", "t", " ", "\"", "T", "e", "s", "t", "\"", "]">>

\* [Event "Test"], a blank line, the rounds and the result token, if any
GameText(shapes, res) ==
  HeaderEventTest \o <<"\n", "\n">> \o MoveText(shapes, 1)
    \o (IF res = None THEN <<>>
        ELSE IF Len(shapes) = 0 THEN res[1] ELSE <<" ">> \o res[1])

\* the inputs of parse_pgn: generated games with the shapes they were written
\* from, and texts parse_pgn rejects
PgnInputs ==
  {[shapes |-> sh, res |-> r, pgn |-> GameText(sh, r)] :
      sh \in SeqsUpTo(RoundShapes, MaxRounds),
      r \in {None, Some(<<"1", "-", "0">>)}}
  \cup
  {[shapes |-> <<>>, res |-> None, pgn |-> t] :
      t \in {PgnNoSeparator, PgnBadHeader, PgnEmpty}}

InitParse ==
  /\ ApiIdle
  /\ hpc = "in"
  /\ harg \in PgnInputs
  /\ hout = <<>>

\* parse_pgn(pgn)
ApplyParse ==
  /\ hpc = "in"
  /\ hpc' = "out"
  /\ hout' = parse_pgn(harg.pgn)
  /\ UNCHANGED harg
  /\ UNCHANGED apiVars

NextParse == ApplyParse

SpecParse == InitParse /\ [][NextParse]_vars

(* ------------------------------ properties ---------------------------- *)

Range(s) == {s[i] : i \in 1..Len(s)}

\* the per-month fetch calls in flight
InFlight == Cardinality({i \in 1..Len(tasks) : tasks[i].st = "running"})

\* the positions whose fetch settled as a failure, as a success
FailedAt == {i \in 1..Len(tasks) : tasks[i].st = "done" /\ ~tasks[i].out[1].ok}
FetchedAt == {i \in 1..Len(tasks) : tasks[i].st = "done" /\ tasks[i].out[1].ok}

\* the instant of a UTC datetime, on the time line of FromTimestamp
InstantOf(dt) == ((dt[1] - 2023) * 12 + (dt[2] - 12)) * TicksPerMonth + dt[3]

\* the instant t lies in [from, to], an absent side being unbounded
Within(t, from, to) ==
  /\ from = None \/ InstantOf(from[1]) <= t
  /\ to = None \/ t <= InstantOf(to[1])

\* C1: a call whose bound has from > to fails with a validation error before
\* any fetch: neither the archive index nor a month has been requested.
C1_BadRangeFailsBeforeAnyFetch ==
  BadRange(from_dt, to_dt) =>
    /\ index_requests = 0
    /\ month_requests = 0
    /\ result = None
    /\ (pc = "raised" => exc = Some(ValueError))

\* C2: at most max_concurrency per-month fetches are in flight, whatever the
\* interleaving, the outcomes and the retries; the free slots of the
\* semaphore account for exactly the fetches in flight, so a queued fetch
\* starts only in a slot a settled one gave back.
C2_AtMostNInFlight ==
  pc \in {"gather", "returned"} =>
    /\ InFlight <= max_concurrency
    /\ sem = max_concurrency - InFlight

\* N fetches in flight, one of them on a retry, and another one queued
C2_Witness ==
  /\ pc = "gather"
  /\ InFlight = max_concurrency
  /\ \E i \in 1..Len(tasks) : tasks[i].st = "running" /\ tasks[i].tries > 1
  /\ \E i \in 1..Len(tasks) : tasks[i].st = "queued"

\* the last position whose fetch for locator u succeeded
LastFetchedAt(u) ==
  CHOOSE i \in FetchedAt :
    filtered_urls[i] = u /\ \A j \in FetchedAt : filtered_urls[j] = u => j <= i

\* C3: when exactly one of several per-month fetches failed, get_games still
\* returns a result: the failed locator is a key of errors with a non-empty
\* description, every other fetch was started and settled with its own
\* payload, and its locator is a key of months with the games of that payload.
C3_OneFailureIsIsolated ==
  pc = "returned" /\ Len(tasks) >= 2 /\ Cardinality(FailedAt) = 1 =>
    /\ result # None
    /\ month_requests = Len(tasks)
    /\ \A k \in FailedAt :
         /\ filtered_urls[k] \in DOMAIN result[1].errors
         /\ result[1].errors[filtered_urls[k]] # ""
    /\ \A i \in 1..Len(tasks) : i \notin FailedAt =>
         /\ i \in FetchedAt
         /\ filtered_urls[i] \in DOMAIN result[1].months
         /\ result[1].months[filtered_urls[i]].games =
              KeptGames(tasks[LastFetchedAt(filtered_urls[i])].out[1].payload.games,
                        from_dt, to_dt)

\* get_games returned with the first of two fetches failed and the second
\* one, for another locator, fetched with games that are kept
C3_Witness ==
  /\ pc = "returned"
  /\ Len(tasks) = 2
  /\ FailedAt = {1}
  /\ filtered_urls[1] # filtered_urls[2]
  /\ Len(result[1].months[filtered_urls[2]].games) > 0

\* C4 as stated: the keys of months and errors partition the archives list,
\* also when the index lists a locator twice.
C4_KeysPartitionArchives ==
  pc = "returned" =>
    /\ DOMAIN result[1].months \cup DOMAIN result[1].errors
         = Range(result[1].archives)
    /\ DOMAIN result[1].months \cap DOMAIN result[1].errors = {}

\* C4 as amended: the keys of months and errors cover the archives list and
\* nothing else; a locator is a key of both only when the list holds it more
\* than once, with one of its fetches fetched and another failed, so the two
\* key sets partition a list without duplicates.
C4_KeysCoverArchives ==
  pc = "returned" =>
    /\ DOMAIN result[1].months \cup DOMAIN result[1].errors
         = Range(result[1].archives)
    /\ DOMAIN result[1].months = {filtered_urls[i] : i \in FetchedAt}
    /\ DOMAIN result[1].errors = {filtered_urls[i] : i \in FailedAt}
    /\ \A u \in DOMAIN result[1].months \cap DOMAIN result[1].errors :
         \E i \in FetchedAt, j \in FailedAt :
            i # j /\ filtered_urls[i] = u /\ filtered_urls[j] = u
    /\ (\A i, j \in 1..Len(filtered_urls) :
          filtered_urls[i] = filtered_urls[j] => i = j)
         => DOMAIN result[1].months \cap DOMAIN result[1].errors = {}

\* a result for two different locators, one in months and one in errors
C4_Witness ==
  /\ pc = "returned"
  /\ Len(result[1].archives) = 2
  /\ result[1].archives[1] # result[1].archives[2]
  /\ DOMAIN result[1].months # {}
  /\ DOMAIN result[1].errors # {}

\* every game of every month of the result has an end_time within [from, to]
AllGamesWithin ==
  \A u \in DOMAIN result[1].months :
    \A k \in 1..Len(result[1].months[u].games) :
      LET g == result[1].months[u].games[k]
      IN  g.end_time # None /\ Within(g.end_time[1], from_dt, to_dt)

\* C5 as stated: for any bound with from <= to, either side possibly absent,
\* every game of the result has an end_time within [from, to].
C5_GamesWithinAnyBound ==
  pc = "returned" => AllGamesWithin

\* C5 as amended: when at least one side of the bound is present (and
\* from <= to), every game of the result has an end_time within [from, to];
\* when both sides are absent no game is filtered out, a game without
\* end_time included.
C5_GamesWithinBound ==
  pc = "returned" =>
    IF from_dt # None \/ to_dt # None THEN AllGamesWithin
    ELSE \A u \in DOMAIN result[1].months :
           LET kept == result[1].months[u].games
               games == tasks[LastFetchedAt(u)].out[1].payload.games
           IN  /\ Len(kept) = Len(games)
               /\ \A k \in 1..Len(games) :
                    kept[k].end_time = games[k].end_time

\* a result under a two-sided bound that kept a game and dropped another
C5_Witness ==
  /\ pc = "returned"
  /\ from_dt # None /\ to_dt # None
  /\ \E i \in FetchedAt :
       /\ Len(result[1].months[filtered_urls[i]].games) > 0
       /\ Len(result[1].months[filtered_urls[i]].games)
            < Len(tasks[LastFetchedAt(filtered_urls[i])].out[1].payload.games)

\* the bound (from, to) is valid: from <= to when both sides are present
ValidBound(from, to) ==
  from = None \/ to = None \/ InstantOf(from[1]) <= InstantOf(to[1])

\* the bound (from2, to2) is at least as wide as (from1, to1)
Wider(from2, to2, from1, to1) ==
  /\ from2 = None \/ (from1 # None /\ InstantOf(from2[1]) <= InstantOf(from1[1]))
  /\ to2 = None \/ (to1 # None /\ InstantOf(to2[1]) >= InstantOf(to1[1]))

\* a is b with some elements left out
RECURSIVE IsSubseq(_, _)
IsSubseq(a, b) ==
  IF Len(a) = 0 THEN TRUE
  ELSE IF Len(b) = 0 THEN FALSE
  ELSE IF Head(a) = Head(b) THEN IsSubseq(Tail(a), Tail(b))
  ELSE IsSubseq(a, Tail(b))

\* C6: month filtering is monotonic: for one archive list and two valid
\* bounds, B2 at least as wide as B1, every archive reference kept under B1
\* is kept under B2.
C6_FilterMonotonic ==
  ( /\ hpc = "out"
    /\ ValidBound(harg.from1, harg.to1)
    /\ ValidBound(harg.from2, harg.to2)
    /\ Wider(harg.from2, harg.to2, harg.from1, harg.to1)
    /\ hout.kept1 # None )
  => /\ hout.kept2 # None
     /\ IsSubseq(hout.kept1[1], hout.kept2[1])

\* two two-sided bounds, the wider one keeping a month the narrower one drops
C6_Witness ==
  /\ hpc = "out"
  /\ harg.from1 # None /\ harg.to1 # None /\ harg.from2 # None /\ harg.to2 # None
  /\ ValidBound(harg.from1, harg.to1)
  /\ Wider(harg.from2, harg.to2, harg.from1, harg.to1)
  /\ hout.kept1 # None /\ hout.kept2 # None
  /\ Len(hout.kept1[1]) >= 1
  /\ Len(hout.kept2[1]) > Len(hout.kept1[1])

Entry(move, clock) == [move |-> move, clock |-> clock]

\* the round-trip example of the spec is among the generated inputs
ExampleShapes ==
  << [wm |-> TRUE, wc |-> TRUE, mark |-> FALSE, bm |-> TRUE, bc |-> TRUE],
     [wm |-> TRUE, wc |-> FALSE, mark |-> FALSE, bm |-> FALSE, bc |-> FALSE] >>

IsExample == harg.shapes = ExampleShapes /\ harg.res = Some(<<"1", "-", "0">>)

HeadersEventTest ==
  <<"E", "v", "e", "n", "t">> :> <<"T", "e", "s", "t">>

\* the rounds the spec gives for the example
ExampleRoundsBySpec ==
  (1 :> [white |-> Entry(Some(Chars_e4), Some(WhiteClock)),
         black |-> Some(Entry(Some(Chars_e5), Some(BlackClock)))])
  @@ (2 :> [white |-> Entry(Some(Chars_Nf3), None), black |-> None])

\* the rounds parse_pgn gives for the example
ExampleRoundsByCode ==
  (1 :> [white |-> Entry(Some(Chars_e4), Some(WhiteClock)), black |-> None])
  @@ (2 :> [white |-> Entry(Some(Chars_Nf3), None), black |-> None])

\* round k of the input has a white move and a black move, with or without
\* the "<k>..." marker in between
TwoMoves(k, marked) ==
  /\ k \in 1..Len(harg.shapes)
  /\ harg.shapes[k].wm /\ harg.shapes[k].bm
  /\ harg.shapes[k].mark = marked

\* the entries of a round of shape sh, each side with its own move and clock
OwnEntries(k, sh) ==
  [white |-> Entry(Some(WhiteMoveOf(k)),
                   IF sh.wc THEN Some(WhiteClock) ELSE None),
   black |-> Some(Entry(Some(BlackMoveOf(k)),
                        IF sh.bc THEN Some(BlackClock) ELSE None))]

\* C7 as stated: the example parses to headers {Event: Test}, result 1-0 and
\* rounds {1: white e4 0:10:00, black e5 0:09:55; 2: white Nf3, no black};
\* a chunk "R. <white move> <clock> <black move> <clock>" yields a white and
\* a black entry, each with its own move and clock.
C7_ExampleAndPlainChunk ==
  hpc = "out" =>
    /\ IsExample =>
         hout = Some([headers |-> HeadersEventTest,
                      result |-> Some(<<"1", "-", "0">>),
                      moves |-> ExampleRoundsBySpec])
    /\ \A k \in 1..MaxRounds :
         TwoMoves(k, FALSE) /\ harg.shapes[k].wc /\ harg.shapes[k].bc =>
           /\ hout # None
           /\ k \in DOMAIN hout[1].moves
           /\ hout[1].moves[k] = OwnEntries(k, harg.shapes[k])

\* C7 as amended: the example parses to headers {Event: Test}, result 1-0 and
\* rounds {1: white e4 0:10:00; 2: white Nf3, clock absent}, with no black
\* entry in either round; a chunk "R. <white move> <clock> R... <black move>
\* <clock>" (either clock may be missing) yields a white and a black entry,
\* each with its own move and clock, and a chunk with the two moves but
\* without the "R..." marker yields a white entry only, with the first clock.
C7_ExampleAndMarkedChunk ==
  hpc = "out" =>
    /\ IsExample =>
         hout = Some([headers |-> HeadersEventTest,
                      result |-> Some(<<"1", "-", "0">>),
                      moves |-> ExampleRoundsByCode])
    /\ \A k \in 1..MaxRounds :
         /\ TwoMoves(k, TRUE) =>
              /\ hout # None
              /\ k \in DOMAIN hout[1].moves
              /\ hout[1].moves[k] = OwnEntries(k, harg.shapes[k])
         /\ TwoMoves(k, FALSE) =>
              /\ hout # None
              /\ k \in DOMAIN hout[1].moves
              /\ hout[1].moves[k] =
                   [white |-> Entry(Some(WhiteMoveOf(k)),
                                    IF harg.shapes[k].wc THEN Some(WhiteClock)
                                    ELSE IF harg.shapes[k].bc THEN Some(BlackClock)
                                    ELSE None),
                    black |-> None]

\* the example has been parsed
C7_Witness == hpc = "out" /\ IsExample /\ hout # None /\ harg.pgn = PgnExample

\* every month request has settled into the result: the games of the payload
\* that months[u] was built from
PayloadGames(u) == tasks[LastFetchedAt(u)].out[1].payload.games

\* the game passes the time test of the bound, if there is one
Passes(g) ==
  (from_dt = None /\ to_dt = None)
    \/ (g.end_time # None /\ Within(g.end_time[1], from_dt, to_dt))

\* the text has no blank line
NoBlankLine(t) == ~\E i \in 1..(Len(t) - 1) : t[i] = "\n" /\ t[i + 1] = "\n"

\* the game has a notation text that parse_pgn rejects
Unparsed(g) ==
  /\ g.pgn # None
  /\ Len(g.pgn[1]) > 0
  /\ NoBlankLine(g.pgn[1]) \/ parse_pgn(g.pgn[1]) = None

\* C8: a notation parse failure never removes the game and never fails
\* get_games: the games of a month are the games of its payload that pass
\* the time test, in their order, and one whose notation does not parse is
\* there as fetched, without parsed_pgn; get_games raises nothing once the
\* month fetches have started.
C8_ParseFailureKeepsGame ==
  /\ pc = "raised" => month_requests = 0
  /\ pc = "returned" =>
       \A u \in DOMAIN result[1].months :
         LET kept == result[1].months[u].games
             expected == SelectSeq(PayloadGames(u), Passes)
         IN  /\ Len(kept) = Len(expected)
             /\ \A j \in 1..Len(expected) :
                  /\ kept[j].end_time = expected[j].end_time
                  /\ kept[j].pgn = expected[j].pgn
                  /\ Unparsed(expected[j]) => kept[j] = expected[j]

\* a month of the result holds a game whose notation has no blank line, after
\* a game that was parsed
C8_Witness ==
  /\ pc = "returned"
  /\ \E u \in DOMAIN result[1].months :
       \E j \in 2..Len(result[1].months[u].games) :
          /\ Unparsed(result[1].months[u].games[j])
          /\ NoBlankLine(result[1].months[u].games[j].pgn[1])
          /\ result[1].months[u].games[j - 1].parsed_pgn # None

\* the games of the result
ResultGames ==
  UNION {Range(result[1].months[u].games) : u \in DOMAIN result[1].months}

\* parse_pgn accepts the text: a blank line ends the header block and every
\* line of the block has a space once its brackets are stripped
Parsable(t) ==
  /\ ~NoBlankLine(t)
  /\ LET i == MinOf({k \in 1..(Len(t) - 1) : t[k] = "\n" /\ t[k + 1] = "\n"})
         lines == SplitLines(Slice(t, 1, i - 1))
     IN  \A n \in 1..Len(lines) :
           " " \in Range(StripChars(lines[n], {"[", "]"}))

\* C9 as stated: every game of the result that has a pgn field has a
\* parsed_pgn attachment with the keys headers, result and moves.
C9_EveryPgnIsParsed ==
  pc = "returned" =>
    \A g \in ResultGames :
      g.pgn # None =>
        /\ g.parsed_pgn # None
        /\ DOMAIN g.parsed_pgn[1] = {"headers", "result", "moves"}

\* C9 as amended: a game of the result has a parsed_pgn attachment exactly
\* when it has a non-empty pgn that parse_pgn accepts, and the attachment
\* then has the keys headers, result and moves.
C9_ParsablePgnIsParsed ==
  pc = "returned" =>
    \A g \in ResultGames :
      /\ g.parsed_pgn # None <=>
           (g.pgn # None /\ Len(g.pgn[1]) > 0 /\ Parsable(g.pgn[1]))
      /\ g.parsed_pgn # None =>
           DOMAIN g.parsed_pgn[1] = {"headers", "result", "moves"}

\* the result holds a game with the attachment and a game with a pgn but
\* without it
C9_Witness ==
  /\ pc = "returned"
  /\ \E g \in ResultGames : g.parsed_pgn # None
  /\ \E g \in ResultGames : g.pgn # None /\ g.parsed_pgn = None

\* the last two path segments of the locator are not both numeric
Malformed(u) ==
  \E k \in {Len(u) - 1, Len(u)} :
    Len(u[k]) = 0 \/ \E c \in Range(u[k]) : c \notin Digits

\* the index has answered
IndexAnswered == pc \in {"gather", "returned"} \/ (pc = "raised" /\ idx_tries > 0
                   /\ exc = Some(ValueError))

\* C10 as stated: a malformed locator in the list of the index makes
\* get_games fail with a validation error under every bound, the absent one
\* included: no month fetch is started and no result is returned.
C10_MalformedAlwaysAborts ==
  IndexAnswered /\ (\E i \in 1..Len(archive_urls) : Malformed(archive_urls[i]))
    => /\ pc = "raised"
       /\ exc = Some(ValueError)
       /\ month_requests = 0
       /\ result = None

\* C10 as amended: under a bound with at least one side present, a malformed
\* locator in the list of the index makes get_games fail with a validation
\* error: no month fetch is started and no result is returned.  Under the
\* absent bound the locators are not parsed: get_games does not fail, the
\* malformed locator is fetched like any other and is in archives.
C10_MalformedAbortsUnderBound ==
  IndexAnswered /\ (\E i \in 1..Len(archive_urls) : Malformed(archive_urls[i]))
    => IF from_dt # None \/ to_dt # None
       THEN /\ pc = "raised"
            /\ exc = Some(ValueError)
            /\ month_requests = 0
            /\ result = None
       ELSE /\ pc # "raised"
            /\ filtered_urls = archive_urls
            /\ Len(tasks) = Len(archive_urls)
            /\ pc = "returned" =>
                 /\ result[1].archives = archive_urls
                 /\ \A i \in 1..Len(tasks) : tasks[i].st = "done"

\* get_games raised on a malformed locator under a valid bound
C10_Witness ==
  /\ pc = "raised"
  /\ from_dt # None \/ to_dt # None
  /\ ~BadRange(from_dt, to_dt)
  /\ \E i \in 1..Len(archive_urls) : Malformed(archive_urls[i])

\* get_games has failed as a whole with an error of the index request
IndexFailureRaised ==
  /\ pc = "raised"
  /\ exc # None
  /\ exc[1] \in AttemptErrors
  /\ _terminal_error(exc[1]) \/ idx_tries = max_tries
  /\ result = None
  /\ tasks = <<>>
  /\ month_requests = 0

\* C11: if the archive-index fetch fails, get_games fails as a whole with
\* that error: the call leaves the index request either with an answer (the
\* fan-out, or the validation error of the answer) or raising the error the
\* request gave up on, with no month fetch started and no result; once
\* raised, no month fetch is ever started and no result ever returned.
C11_IndexFailureIsFatal ==
  [][ /\ (pc = "index" /\ pc' # "index")
         => \/ pc' = "gather"
            \/ pc' = "raised" /\ exc' = Some(ValueError)
            \/ IndexFailureRaised'
      /\ pc = "raised"
         => pc' = "raised" /\ month_requests' = 0 /\ result' = None
                           /\ tasks' = <<>> /\ exc' = exc ]_vars

\* the index request was retried to the last attempt and get_games raised
\* its error
C11_Witness ==
  /\ IndexFailureRaised
  /\ idx_tries = max_tries
  /\ exc = Some(ResponseError(500))

\* position i is the last one of its locator whose fetch settled the way
\* the fetch at i did
LastOfItsKind(i) ==
  \A j \in (i + 1)..Len(tasks) :
    filtered_urls[j] = filtered_urls[i]
      => tasks[j].out[1].ok # tasks[i].out[1].ok

\* the games of the payload fetched at position i that pass the time test
PassingGamesAt(i) == SelectSeq(tasks[i].out[1].payload.games, Passes)

\* C12: whatever order the month fetches complete in, the outcome used for
\* the i-th filtered reference is the outcome of the fetch issued at position
\* i for that reference: its payload's games under months, or its error's
\* description under errors (for a locator listed more than once, the last
\* payload and the last error); one fetch is issued per reference, and
\* archives is the filtered list, a subsequence of the index list in its
\* order.
C12_OutcomeStaysWithItsLocator ==
  pc = "returned" =>
    /\ month_requests = Len(filtered_urls)
    /\ Len(tasks) = Len(filtered_urls)
    /\ result[1].archives = filtered_urls
    /\ IsSubseq(filtered_urls, archive_urls)
    /\ \A i \in 1..Len(tasks) :
         LastOfItsKind(i) =>
           IF tasks[i].out[1].ok
           THEN /\ filtered_urls[i] \in DOMAIN result[1].months
                /\ LET kept == result[1].months[filtered_urls[i]].games
                   IN  /\ Len(kept) = Len(PassingGamesAt(i))
                       /\ \A k \in 1..Len(kept) :
                            /\ kept[k].end_time = PassingGamesAt(i)[k].end_time
                            /\ kept[k].pgn = PassingGamesAt(i)[k].pgn
           ELSE /\ filtered_urls[i] \in DOMAIN result[1].errors
                /\ result[1].errors[filtered_urls[i]]
                     = ExcRepr(tasks[i].out[1].exc)

\* a result for two different locators whose fetches settled out of list
\* order, with different payloads that show in the result
C12_Witness ==
  /\ pc = "returned"
  /\ overtaken
  /\ Len(tasks) = 2
  /\ filtered_urls[1] # filtered_urls[2]
  /\ FetchedAt = {1, 2}
  /\ tasks[1].out[1].payload # tasks[2].out[1].payload
  /\ result[1].months[filtered_urls[1]].games
       # result[1].months[filtered_urls[2]].games

\* the fetch at position i has settled, as a success or as a failure
Settled(i) == tasks[i].st = "done" /\ tasks[i].out # None

\* C13: get_games neither assembles nor returns its result while a month
\* fetch of a filtered reference is queued or in flight: as long as one is,
\* there is no result and the call has not returned; when it has returned,
\* the fetch of every filtered reference was started and has settled, and
\* every slot of the semaphore is free again.
C13_ReturnsAfterAllSettled ==
  /\ (\E i \in 1..Len(tasks) : ~Settled(i))
       => result = None /\ pc = "gather"
  /\ pc = "returned"
       => /\ Len(tasks) = Len(filtered_urls)
          /\ \A i \in 1..Len(tasks) : Settled(i)
          /\ month_requests = Len(tasks)
          /\ InFlight = 0
          /\ sem = max_concurrency

\* get_games returned after more fetches than slots, so that one had to
\* queue, one settled as a failure and one as a success
C13_Witness ==
  /\ pc = "returned"
  /\ result # None
  /\ Len(tasks) > max_concurrency
  /\ FailedAt # {}
  /\ FetchedAt # {}

\* months counted from year 0: of a well-formed locator, of a datetime
MonthNo(u) == DigitsToInt(u[Len(u) - 1]) * 12 + DigitsToInt(u[Len(u)])
MonthNoOfDt(dt) == dt[1] * 12 + dt[2]

\* the month of u lies between the months of from and to, an absent side
\* being unbounded
MonthWithin(u, from, to) ==
  /\ from = None \/ MonthNoOfDt(from[1]) <= MonthNo(u)
  /\ to = None \/ MonthNo(u) <= MonthNoOfDt(to[1])

\* the references of urls whose month lies in the bound, in their order
MonthsWithin(urls, from, to) ==
  LET Test(u) == MonthWithin(u, from, to)
  IN  SelectSeq(urls, Test)

\* C14: for a valid bound with at least one side present and a list of
\* well-formed locators, the filtered list is exactly the subsequence, in the
\* order of the list, of the references with start_ym <= (year, month) <=
\* end_ym, the year dominating and an absent side unbounded; a reference in
\* the month of from or of to is kept; with no bound the list is returned
\* unchanged.
C14_FilterIsExact ==
  hpc = "out" =>
    /\ ( /\ harg.from1 # None \/ harg.to1 # None
         /\ ValidBound(harg.from1, harg.to1)
         /\ \A i \in 1..Len(harg.urls) : ~Malformed(harg.urls[i]) )
       => /\ hout.kept1 = Some(MonthsWithin(harg.urls, harg.from1, harg.to1))
          /\ \A i \in 1..Len(harg.urls) :
               ( \/ harg.from1 # None
                    /\ MonthNo(harg.urls[i]) = MonthNoOfDt(harg.from1[1])
                 \/ harg.to1 # None
                    /\ MonthNo(harg.urls[i]) = MonthNoOfDt(harg.to1[1]) )
               => harg.urls[i] \in Range(hout.kept1[1])
    /\ (harg.from1 = None /\ harg.to1 = None)
       => hout.kept1 = Some(harg.urls)

\* a two-sided bound over a year boundary: the list holds a reference in the
\* month of to, which is kept, and one outside the bound, which is not
C14_Witness ==
  /\ hpc = "out"
  /\ harg.from1 # None /\ harg.to1 # None
  /\ ValidBound(harg.from1, harg.to1)
  /\ harg.from1[1][1] < harg.to1[1][1]
  /\ hout.kept1 # None
  /\ Len(hout.kept1[1]) = 1
  /\ Len(harg.urls) = 2
  /\ MonthNo(hout.kept1[1][1]) = MonthNoOfDt(harg.to1[1])
  /\ \E i \in 1..2 : ~Malformed(harg.urls[i])
                       /\ ~MonthWithin(harg.urls[i], harg.from1, harg.to1)

\* the game as the payload had it, without the attachment
Bare(g) == [g EXCEPT !.parsed_pgn = None]

\* C15: for each fetched month, the games of the result are exactly the games
\* of the payload that pass the test (end_time present, from absent or
\* instant >= from, to absent or instant <= to), in payload order, none
\* dropped and none added; with no bound every game of the payload is kept,
\* the ones without end_time included.
C15_KeptGamesAreExact ==
  pc = "returned" =>
    \A i \in FetchedAt :
      LastOfItsKind(i) =>
        LET kept == result[1].months[filtered_urls[i]].games
            games == tasks[i].out[1].payload.games
        IN  /\ [k \in 1..Len(kept) |-> Bare(kept[k])] = PassingGamesAt(i)
            /\ (from_dt = None /\ to_dt = None) =>
                 /\ Len(kept) = Len(games)
                 /\ \A k \in 1..Len(games) : Bare(kept[k]) = games[k]

\* under a bound, a month whose payload has a game at the instant of from,
\* which is kept, and a game before it, which is not
C15_Witness ==
  /\ pc = "returned"
  /\ from_dt # None
  /\ \E i \in FetchedAt :
       LET kept == result[1].months[filtered_urls[i]].games
           games == tasks[i].out[1].payload.games
       IN  /\ LastOfItsKind(i)
           /\ \E k \in 1..Len(kept) :
                kept[k].end_time = Some(InstantOf(from_dt[1]))
           /\ \E k \in 1..Len(games) :
                games[k].end_time # None
                  /\ games[k].end_time[1] < InstantOf(from_dt[1])
           /\ Len(kept) < Len(games)

\* C16: in the rounds parse_pgn returns a black entry is never a
\* placeholder: a round whose black side text is empty, or is empty once its
\* clock annotation is removed, has no black key, so a black entry always
\* has a move; every round has a white entry, whose move may be absent.
C16_BlackIsNeverPlaceholder ==
  (hpc = "out" /\ hout # None) =>
    \A k \in DOMAIN hout[1].moves :
      /\ "white" \in DOMAIN hout[1].moves[k]
      /\ hout[1].moves[k].black # None
           => hout[1].moves[k].black[1].move # None

\* C17: no slot is lost and the fan-out cannot deadlock: a slot taken by a
\* month fetch is free again when that fetch has settled, as a success or as
\* a failure; so, every HTTP attempt completing, every queued fetch
\* eventually starts and get_games eventually returns with every slot free.
C17_FanOutTerminates ==
  /\ [](pc \in {"gather", "returned"} => sem = max_concurrency - InFlight)
  /\ \A i \in 1..MaxArchives :
       (pc = "gather" /\ i <= Len(tasks) /\ tasks[i].st = "queued")
         ~> (i <= Len(tasks) /\ tasks[i].st # "queued")
  /\ (pc = "gather") ~> (pc = "returned" /\ sem = max_concurrency)

\* get_games returned although every fetch failed, each one in the single
\* slot the one before it gave back
C17_Witness ==
  /\ pc = "returned"
  /\ max_concurrency = 1
  /\ Len(tasks) = MaxArchives
  /\ FailedAt = 1..Len(tasks)
  /\ sem = max_concurrency

\* a client or timeout error after which the policy allows another attempt:
\* not a response error with a status below 500 other than 429
MayRetry(o) ==
  /\ ~o.ok
  /\ o.exc.type \in {"ClientResponseError", "ClientConnectionError",
                     "TimeoutError"}
  /\ o.exc.type = "ClientResponseError"
       => o.exc.status >= 500 \/ o.exc.status = 429

\* C18: one _request call makes at most 5 HTTP attempts; an attempt after the
\* first follows only a client or timeout error that is not terminal; a
\* response error with a status below 500 other than 429 ends the call with
\* that error, as does the failure of the 5th attempt, the last error being
\* the one raised; a successful attempt ends the call with its payload.
C18_RetryPolicy ==
  hpc \in {"attempt", "done"} =>
    LET log == hout.log
        n == Len(hout.log)
    IN  /\ n <= 5
        /\ \A k \in 1..(n - 1) : MayRetry(log[k])
        /\ hpc = "attempt" =>
             /\ n < 5
             /\ \A k \in 1..n : MayRetry(log[k])
             /\ hout.raised = None /\ hout.returned = None
        /\ (hpc = "done" /\ n > 0) =>
             IF log[n].ok
             THEN hout.returned = Some(log[n].payload) /\ hout.raised = None
             ELSE /\ hout.raised = Some(log[n].exc)
                  /\ hout.returned = None
                  /\ ~MayRetry(log[n]) \/ n = 5
        /\ (hpc = "done" /\ n = 0) =>
             hout.raised = Some(ValueError) /\ hout.returned = None

\* the call gave up after its 5th attempt, the earlier ones having failed
\* with a 429 and with a timeout among others, and raised the last error
C18_Witness ==
  /\ hpc = "done"
  /\ Len(hout.log) = 5
  /\ hout.raised = Some(ResponseError(500))
  /\ hout.log[5] = Failed(ResponseError(500))
  /\ \E k \in 1..4 : hout.log[k] = Failed(ResponseError(429))
  /\ \E k \in 1..4 : hout.log[k] = Failed(TimeoutError)

====
